---- MODULE Spec2Model ----
(***************************************************************************)
(* Recording lifecycle and trigger arbitration of VoiceType Pro.           *)
(*                                                                         *)
(* The model follows src/modules: AudioRecorder (audio/audio_recorder.py), *)
(* VoiceTypeProApp (core/main_app.py), HotkeyManager with its two handlers *)
(* (core/hotkey_manager.py, features/push_to_talk.py,                       *)
(* features/toggle_recording.py) and HeySoffyHandler                        *)
(* (features/hey_soffy.py).                                                 *)
(*                                                                         *)
(* Every Python thread is a process with a program counter pc[t]; one      *)
(* action is one statement group of the source that touches shared state.  *)
(* Time is an integer clock `now` counted in units of half a second;       *)
(* time.time() reads it.  Statements take no time: the clock advances only *)
(* while every thread is blocked (idle, sleeping, waiting for audio or for *)
(* the speech model).                                                      *)
(***************************************************************************)
EXTENDS Integers, Sequences, FiniteSets, TLC

\* ------------------------------------------------------------------ bounds
MaxTime == 14         \* the clock stops advancing here
MaxFrames == 4        \* frames the recorder stream delivers in one session
MaxFaults == 1        \* audio-device failures injected in one behaviour
MaxWakeFrames == 4    \* frames the wake-word listener reads
MaxPttFrames == 2     \* frames of one short session
MaxRaceFrames == 1    \* frames of one session where two triggers race
MaxMixedFrames == 3   \* frames of one session of silent and voiced frames
MaxSessionTime == 17  \* clock ticks of a voice-assistant session
MaxTextLen == 5       \* characters of a text the speech model returns
MaxPhraseLen == 3     \* characters of a configured wake phrase
MaxSpokenLen == 3     \* characters of a dictated text

\* ------------------------------------------------------- program constants
\* Durations are in clock units of 0.5 s.
debounce_delay == 1       \* toggle_recording.py:19   0.5 s
cooldown_period == 6      \* hey_soffy.py:34          3.0 s
silence_timeout == 4      \* config_manager.py:29     2.0 s
auto_stop_timeout == 6    \* config_manager.py:40     3.0 s
force_stop_slack == 10    \* main_app.py:125          "+ 5" seconds
\* RMS levels are small integers; the configured threshold is one of them.
voice_activation_threshold == 2   \* config_manager.py:28
\* The wake-word buffer is scaled down: samples per second and per read.
sample_rate == 2          \* config_manager.py:24    16000
listen_chunk == 4         \* hey_soffy.py:85         1024
buffer_duration == 3      \* hey_soffy.py:26         3.0 s

None == -1
NoThread == "none"

\* The first reading of time.time(): far from the epoch, so that
\* now - 0 exceeds every delay of the program.
StartTime == cooldown_period + 1

\* ----------------------------------------------------------------- threads
KB == "kb"            \* pynput keyboard listener thread
GUI == "gui"          \* Tk main loop (record button)
VA == "va"            \* voice-assistant session thread
TIMER == "timer"      \* threading.Timer of the deferred auto-stop
HEY == "hey"          \* HeySoffyHandler._listen_worker
CB == "cb"            \* PortAudio's thread calling AudioRecorder._audio_callback
TR == "tr"            \* the latest thread running _transcribe_and_paste
Workers == {KB, GUI, VA, TIMER}

\* hotkeys.push_to_talk and hotkeys.toggle_recording of the default config
push_to_talk_keys == {"ctrl", "space"}
toggle_recording_keys == {"ctrl", "shift", "r"}

\* ------------------------------------------------------------------- texts
\* A text is a sequence of characters.  Words are spelled with the letters a,
\* b and u, upper-case letters are A, B and U, and " " is white space.  The
\* listener hears texts of Chars; dictated texts are of SpokenChars, in which
\* the word u is a filler word.
Chars == {"a", "B", " "}
SpokenChars == {"a", "u", " ", "."}
\* voice_assistant.wake_word of the default config, config_manager.py:38:
\* a phrase of two words
default_wake_word == <<"a", " ", "b">>

TextsOver(chars, n) == UNION {[1..k -> chars] : k \in 0..n}
TextsUpTo(n) == TextsOver(Chars, n)

\* str.lower() and str.upper() of one character
LowerChar(c) ==
    CASE c = "A" -> "a" [] c = "B" -> "b" [] c = "U" -> "u" [] OTHER -> c
UpperChar(c) ==
    CASE c = "a" -> "A" [] c = "b" -> "B" [] c = "u" -> "U" [] OTHER -> c

\* str.lower()
Lower(text) == [i \in 1..Len(text) |-> LowerChar(text[i])]

\* str.capitalize(): the first character in upper case, the others in lower
Capitalize(text) ==
    [i \in 1..Len(text) |->
        IF i = 1 THEN UpperChar(text[i]) ELSE LowerChar(text[i])]

\* str.strip()
RECURSIVE LStrip(_)
LStrip(text) ==
    IF text # <<>> /\ Head(text) = " " THEN LStrip(Tail(text)) ELSE text

RECURSIVE RStrip(_)
RStrip(text) ==
    IF text # <<>> /\ text[Len(text)] = " "
    THEN RStrip(SubSeq(text, 1, Len(text) - 1))
    ELSE text

Strip(text) == RStrip(LStrip(text))

\* str.split(): the maximal runs of characters other than white space
RECURSIVE SplitFrom(_, _, _)
SplitFrom(text, words, word) ==
    IF text = <<>>
    THEN IF word = <<>> THEN words ELSE Append(words, word)
    ELSE IF Head(text) = " "
    THEN SplitFrom(Tail(text),
                   IF word = <<>> THEN words ELSE Append(words, word), <<>>)
    ELSE SplitFrom(Tail(text), words, Append(word, Head(text)))

Split(text) == SplitFrom(text, <<>>, <<>>)

\* sep.join(parts)
RECURSIVE Join(_, _)
Join(parts, sep) ==
    IF parts = <<>> THEN <<>>
    ELSE IF Len(parts) = 1 THEN parts[1]
    ELSE parts[1] \o sep \o Join(Tail(parts), sep)

\* text.split('. '): the parts between the occurrences of ". ", empty ones
\* included
RECURSIVE SplitSentences(_, _, _)
SplitSentences(text, parts, part) ==
    IF text = <<>> THEN Append(parts, part)
    ELSE IF Len(text) >= 2 /\ text[1] = "." /\ text[2] = " "
    THEN SplitSentences(SubSeq(text, 3, Len(text)), Append(parts, part), <<>>)
    ELSE SplitSentences(Tail(text), parts, Append(part, Head(text)))

\* whisper_transcriber.py line 81, scaled down to one word
filler_words == {<<"u">>}

\* _post_process_text, whisper_transcriber.py lines 74-97, under the flags
\* behavior.remove_filler_words, capitalize_sentences and auto_punctuation
\* line 83: [word for word in words if word.lower() not in filler_words]
RECURSIVE NoFillers(_)
NoFillers(words) ==
    IF words = <<>> THEN <<>>
    ELSE IF Lower(Head(words)) \notin filler_words
    THEN <<Head(words)>> \o NoFillers(Tail(words))
    ELSE NoFillers(Tail(words))

RemoveFillerWords(text) == Join(NoFillers(Split(text)), <<" ">>)

\* line 89: [s.strip().capitalize() for s in sentences if s.strip()]
RECURSIVE Capitalized(_)
Capitalized(sentences) ==
    IF sentences = <<>> THEN <<>>
    ELSE IF Strip(Head(sentences)) # <<>>
    THEN <<Capitalize(Strip(Head(sentences)))>>
             \o Capitalized(Tail(sentences))
    ELSE Capitalized(Tail(sentences))

CapitalizeSentences(text) ==
    Join(Capitalized(SplitSentences(text, <<>>, <<>>)), <<".", " ">>)

AutoPunctuation(text) ==
    IF text # <<>> /\ text[Len(text)] \notin {".", "!", "?"}
    THEN Append(text, ".")
    ELSE text

PostProcessText(text, behavior) ==
    IF text = <<>> THEN text
    ELSE LET unfilled == IF behavior.remove_filler_words
                         THEN RemoveFillerWords(text) ELSE text
             sentenced == IF behavior.capitalize_sentences
                          THEN CapitalizeSentences(unfilled) ELSE unfilled
         IN IF behavior.auto_punctuation
            THEN AutoPunctuation(sentenced) ELSE sentenced

\* hey_soffy.py line 164: range(len(text_words) - len(wake_words) + 1)
StartsShort(text_words, wake_words) == Len(text_words) - Len(wake_words)
Starts(text_words, wake_words) == Len(text_words) - Len(wake_words) + 1

\* lines 164-167: the loop over the start positions i = 0, 1, ...
RECURSIVE ScanFrom(_, _, _)
ScanFrom(i, text_words, wake_words) ==
    IF i >= Starts(text_words, wake_words) THEN FALSE
    ELSE IF SubSeq(text_words, i + 1, i + Len(wake_words)) = wake_words
    THEN TRUE
    ELSE ScanFrom(i + 1, text_words, wake_words)

\* _check_for_wake_word, lines 157-167, on the text of the speech model:
\* result['text'].lower().strip(), self.wake_word.split(), text.split()
CheckForWakeWord(wake_word, text) ==
    ScanFrom(0, Split(Lower(text)), Split(wake_word))

VARIABLES
    now,            \* time.time()
    rec,            \* AudioRecorder fields
    record_lock,    \* AudioRecorder._record_lock: the thread that holds it
    app,            \* VoiceTypeProApp fields
    hk,             \* HotkeyManager and its handlers
    hey,            \* HeySoffyHandler fields
    pc,             \* program counter of every thread
    loc,            \* locals of every worker thread
    env,            \* the audio device and the keyboard, as the program sees them
    hist            \* history of the run, read only by the properties

vars == <<now, rec, record_lock, app, hk, hey, pc, loc, env, hist>>

\* ------------------------------------------------------------------ helpers
Goto(t, l) == pc' = [pc EXCEPT ![t] = l]

\* the locals of a thread that is in no call
NoLocals ==
    [via |-> "none", after |-> "idle", auto_stop |-> FALSE,
     success |-> FALSE, outcome |-> "none", found |-> "none",
     has_audio |-> FALSE,
     audio |-> <<>>, start_time |-> 0, current_time |-> 0,
     frame |-> [n |-> 0, rms |-> 0]]

\* a call of VoiceTypeProApp.start_recording(auto_stop) by thread t on behalf
\* of handler `via`, continuing at `after`
CallStart(t, via, auto_stop, after) ==
    /\ pc' = [pc EXCEPT ![t] = "start_enter"]
    /\ loc' = [loc EXCEPT ![t].via = via, ![t].auto_stop = auto_stop,
                          ![t].after = after]

\* a call of VoiceTypeProApp.stop_recording_and_transcribe() by thread t
CallStop(t, via, after) ==
    /\ pc' = [pc EXCEPT ![t] = "stop_enter"]
    /\ loc' = [loc EXCEPT ![t].via = via, ![t].after = after]

\* len() of the array np.concatenate makes of a list of chunks
chunk_size == 1024
min_audio_length == 1000
SampleCount(frames) == Len(frames) * chunk_size

\* threading.Lock: acquire blocks while another thread holds the lock
CanAcquireNoLock(t) == TRUE
CanAcquire(t) == record_lock = NoThread

\* -------------------------------------------- AudioRecorder.start_recording
\* line 36: if self.is_recording
AlreadyRecordingNever == FALSE
AlreadyRecording == rec.is_recording

\* line 63: the flag after an exception of open or start_stream
AfterStartErrorStuck == TRUE
AfterStartError == FALSE

\* lines 35-38: with self._record_lock: if self.is_recording: return False
StartEnter(t) ==
    /\ pc[t] = "start_enter"
    /\ CanAcquire(t)
    /\ IF AlreadyRecording
       THEN /\ loc' = [loc EXCEPT ![t].success = FALSE,
                                  ![t].outcome = "rejected"]
            /\ Goto(t, "start_ret")
            /\ UNCHANGED record_lock
       ELSE /\ record_lock' = t
            /\ Goto(t, "start_open")
            /\ UNCHANGED loc
    /\ UNCHANGED <<now, rec, app, hk, hey, env, hist>>

\* lines 41-64, under the lock: the session's fields are reset, the stream is
\* opened and started; an exception of either call is caught, clears
\* is_recording and returns False
StartOpen(t) ==
    /\ pc[t] = "start_open"
    /\ \E outcome \in {"ok", "open_raises", "start_stream_raises"} :
         /\ outcome # "ok" => env.faults < MaxFaults
         /\ rec' = [rec EXCEPT
                !.is_recording = IF outcome = "ok" THEN TRUE
                                 ELSE AfterStartError,
                !.auto_stop_enabled = loc[t].auto_stop,
                !.audio_data = <<>>,
                !.silence_start = None,
                !.stream = IF outcome = "ok" THEN "active"
                           ELSE IF outcome = "start_stream_raises" THEN "opened"
                           ELSE @]
         /\ env' = [env EXCEPT
                !.faults = IF outcome = "ok" THEN @ ELSE @ + 1,
                !.open_streams = IF outcome = "open_raises" THEN @ ELSE @ + 1,
                !.frames = 0]
         /\ loc' = [loc EXCEPT ![t].success = (outcome = "ok"),
                                ![t].outcome = outcome]
         /\ hist' = [hist EXCEPT
                !.live = IF outcome = "ok" THEN @ + 1 ELSE @,
                !.delivered = <<>>,
                !.obtained = 0,
                !.started_by = IF outcome = "ok" THEN loc[t].via ELSE @,
                !.scheduled = 0,
                !.run_start = None,
                !.overdue = FALSE,
                !.ptt_pressed = FALSE,
                !.reset_seen = FALSE,
                !.sched_gap = None,
                !.ended_by = "none"]
    /\ record_lock' = NoThread
    /\ Goto(t, "start_ret")
    /\ UNCHANGED <<now, app, hk, hey>>

\* ------------------------------------------ VoiceTypeProApp.start_recording
\* main_app.py lines 145-156, after the recorder's call has returned
StartRet(t) ==
    /\ pc[t] = "start_ret"
    /\ app' = IF loc[t].success
              THEN [app EXCEPT !.is_recording = TRUE, !.status = "Recording..."]
              ELSE [app EXCEPT !.status = "Failed to start recording"]
    /\ Goto(t, loc[t].after)
    /\ loc' = [loc EXCEPT ![t] = NoLocals]
    /\ UNCHANGED <<now, rec, record_lock, hk, hey, env, hist>>

\* --------------------------------------------- AudioRecorder.stop_recording
\* line 69: if not self.is_recording
StopFindsIdleNever == FALSE
StopFindsIdle == ~rec.is_recording

\* where AudioRecorder.stop_recording returns to: cleanup calls it without
\* stop_recording_and_transcribe
StopReturn(t) ==
    IF loc[t].via = "cleanup" THEN loc[t].after ELSE "stop_ret"

\* lines 68-70: with self._record_lock: if not self.is_recording: return None
StopEnter(t) ==
    /\ pc[t] = "stop_enter"
    /\ CanAcquire(t)
    /\ IF StopFindsIdle
       THEN /\ loc' = [loc EXCEPT ![t].found = "idle",
                                  ![t].has_audio = FALSE, ![t].audio = <<>>]
            /\ Goto(t, StopReturn(t))
            /\ UNCHANGED record_lock
       ELSE /\ record_lock' = t
            /\ loc' = [loc EXCEPT ![t].found = "active"]
            /\ Goto(t, "stop_set")
    /\ UNCHANGED <<now, rec, app, hk, hey, env, hist>>

\* lines 73-74
StopSet(t) ==
    /\ pc[t] = "stop_set"
    /\ rec' = [rec EXCEPT !.is_recording = FALSE, !.auto_stop_enabled = FALSE]
    /\ hist' = [hist EXCEPT !.live = IF @ > 0 THEN @ - 1 ELSE 0,
                            !.ended_by = loc[t].via]
    /\ Goto(t, "stop_close")
    /\ UNCHANGED <<now, record_lock, app, hk, hey, loc, env>>

\* lines 88-91: what stop_recording returns of the chunks when stop_stream or
\* close raised (None)
BufferAfterStopErrorKept(data) == data
BufferAfterStopError(data) == <<>>

\* lines 76-91: stop and close the stream, concatenate the chunks.  stop_stream
\* returns only when the running callback has returned.  An exception of
\* stop_stream or close is caught: the stream stays referenced and None is
\* returned.
StopClose(t) ==
    /\ pc[t] = "stop_close"
    /\ \E outcome \in {"ok", "close_raises"} :
         /\ outcome = "close_raises" =>
                env.faults < MaxFaults /\ rec.stream # "None"
         /\ outcome = "ok" => pc[CB] = "idle"
         /\ rec' = [rec EXCEPT !.stream = IF outcome = "ok" THEN "None" ELSE @]
         /\ env' = [env EXCEPT
                !.faults = IF outcome = "ok" THEN @ ELSE @ + 1,
                !.open_streams =
                    IF outcome = "ok" /\ rec.stream # "None" THEN @ - 1 ELSE @]
         /\ LET audio == IF outcome = "ok" THEN rec.audio_data
                         ELSE BufferAfterStopError(rec.audio_data)
            IN loc' = [loc EXCEPT ![t].has_audio = (audio # <<>>),
                                  ![t].audio = audio]
         /\ hist' = [hist EXCEPT !.obtained =
                IF outcome = "ok" /\ rec.audio_data # <<>> /\ @ < 2
                THEN @ + 1 ELSE @]
    /\ record_lock' = NoThread
    /\ Goto(t, StopReturn(t))
    /\ UNCHANGED <<now, app, hk, hey>>

\* ------------------------------ VoiceTypeProApp.stop_recording_and_transcribe
\* main_app.py line 166
StopRet(t) ==
    /\ pc[t] = "stop_ret"
    /\ app' = [app EXCEPT !.is_recording = FALSE]
    /\ Goto(t, "stop_mode")
    /\ UNCHANGED <<now, rec, record_lock, hk, hey, loc, env, hist>>

\* main_app.py line 175: audio_data is not None and len(audio_data) > 1000
IsLongEnoughAlways(has_audio, audio) == TRUE
IsLongEnough(has_audio, audio) ==
    has_audio /\ SampleCount(audio) > min_audio_length

\* main_app.py lines 167-181: the toggle flag is cleared; the buffer goes to
\* a new transcription thread when it is longer than the minimum, else the
\* status is "No audio captured"
StopMode(t) ==
    /\ pc[t] = "stop_mode"
    /\ LET long == IsLongEnough(loc[t].has_audio, loc[t].audio)
       IN /\ app' = [app EXCEPT
                !.is_toggle_mode = FALSE,
                !.status = IF long THEN "Processing..."
                           ELSE "No audio captured"]
          /\ pc' = [pc EXCEPT ![t] = loc[t].after,
                              ![TR] = IF long THEN "tr_run" ELSE @]
          /\ loc' = [loc EXCEPT ![t] = NoLocals,
                                ![TR].audio = IF long THEN loc[t].audio ELSE @]
    /\ UNCHANGED <<now, rec, record_lock, hk, hey, env, hist>>

\* ---------------------------------------------------- _transcribe_and_paste
\* main_app.py line 176 and audio_recorder.py line 84: the thread's argument
\* is the array np.concatenate made at the stop, not the recorder's list
TranscriptionInputShared(argument, audio_data) == audio_data
TranscriptionInput(argument, audio_data) == argument

\* WhisperTranscriber.transcribe, whisper_transcriber.py lines 33-72: the text
\* the model hears in the audio, None when the model's call raised (lines
\* 70-72); with no model loaded the call itself raises (lines 35-36)
\* `said` is the audio the text was made from; with outcome "text" the
\* model recognizes env.heard in it, which lines 64-65 strip and post-process
Raises == [kind |-> "raises", said |-> <<>>, text |-> <<>>]
Transcribe(outcome, audio) ==
    CASE outcome = "text" ->
             [kind |-> "str", said |-> audio,
              text |-> PostProcessText(Strip(env.heard), app.config.behavior)]
      [] outcome = "empty" -> [kind |-> "str", said |-> <<>>, text |-> <<>>]
      [] outcome = "model_raises" ->
             [kind |-> "None", said |-> <<>>, text |-> <<>>]
      [] outcome = "not_loaded" -> Raises

\* main_app.py line 201: if text and len(text.strip()) > 0
HasTextAlways(text) == TRUE
HasText(text) ==
    text.kind = "str" /\ text.text # <<>> /\ Len(Strip(text.text)) > 0

\* paste_text has not been called
NotCalled == [kind |-> "not called", said |-> <<>>, text |-> <<>>]

\* main_app.py lines 196-216, on the transcription thread: a text that is
\* not empty is pasted; an exception of transcribe is reported as
\* "Transcription error", everything else as "No speech detected"
TranscribeAndPaste ==
    /\ pc[TR] = "tr_run"
    /\ \E outcome \in {"text", "empty", "model_raises", "not_loaded"} :
         LET text == Transcribe(outcome,
                        TranscriptionInput(loc[TR].audio, rec.audio_data))
         IN /\ app' = [app EXCEPT !.status =
                  IF text = Raises THEN "Transcription error"
                  ELSE IF HasText(text) THEN "Text pasted successfully"
                  ELSE "No speech detected"]
            /\ hist' = [hist EXCEPT
                  !.transcribed = outcome,
                  !.pasted = IF text # Raises /\ HasText(text)
                             THEN text.said ELSE @,
                  !.paste_text = IF text # Raises /\ HasText(text)
                                 THEN text ELSE @]
    /\ Goto(TR, "off")
    /\ loc' = [loc EXCEPT ![TR] = NoLocals]
    /\ UNCHANGED <<now, rec, record_lock, hk, hey, env>>

\* ----------------------------------------- VoiceTypeProApp.toggle_recording
\* main_app.py line 190
ToggleSet(t) ==
    /\ pc[t] = "toggle_set"
    /\ app' = [app EXCEPT !.is_toggle_mode = TRUE]
    /\ Goto(t, "toggle_check")
    /\ UNCHANGED <<now, rec, record_lock, hk, hey, loc, env, hist>>

\* main_app.py lines 191-194
ToggleCheck(t) ==
    /\ pc[t] = "toggle_check"
    /\ IF app.is_recording
       THEN CallStop(t, "toggle", "idle")
       ELSE CallStart(t, "toggle", FALSE, "idle")
    /\ UNCHANGED <<now, rec, record_lock, app, hk, hey, env, hist>>

\* the record button of the main window: command=self.app.toggle_recording
GuiClick ==
    /\ pc[GUI] = "idle"
    /\ Goto(GUI, "toggle_set")
    /\ UNCHANGED <<now, rec, record_lock, app, hk, hey, loc, env, hist>>

\* ------------------------------------------------------------ HotkeyManager
\* _get_key_name, hotkey_manager.py lines 89-107: the left and the right
\* variant of a modifier have one name
KeyName(k) == IF k \in {"ctrl_l", "ctrl_r"} THEN "ctrl" ELSE k

\* the keys of `chord` are all physically down when `held` are
ChordDown(chord, held) == chord \subseteq {KeyName(k) : k \in held}

\* the last two of a sequence
LastTwo(q) == IF Len(q) > 2 THEN SubSeq(q, Len(q) - 1, Len(q)) ELSE q

\* PushToTalkHandler.check_activation (push_to_talk.py lines 22-43) on the key
\* set `keys`, with the callbacks on_push_to_talk_start / on_push_to_talk_end
\* of main_app.py lines 93-103 up to their call of start or stop
PushToTalkCheck(keys, after) ==
    LET should_activate ==
            push_to_talk_keys # {} /\ push_to_talk_keys \subseteq keys
    IN  IF should_activate /\ ~hk.ptt_is_active
        THEN /\ hk' = [hk EXCEPT !.current_keys = keys, !.ptt_is_active = TRUE]
             /\ IF ~app.is_recording
                THEN CallStart(KB, "ptt", FALSE, after)
                ELSE Goto(KB, after) /\ UNCHANGED loc
        ELSE IF ~should_activate /\ hk.ptt_is_active
        THEN /\ hk' = [hk EXCEPT !.current_keys = keys, !.ptt_is_active = FALSE]
             /\ IF app.is_recording /\ ~app.is_toggle_mode
                THEN CallStop(KB, "ptt_end", after)
                ELSE Goto(KB, after) /\ UNCHANGED loc
        ELSE /\ hk' = [hk EXCEPT !.current_keys = keys]
             /\ Goto(KB, after)
             /\ UNCHANGED loc

\* _on_key_press, hotkey_manager.py lines 54-70, up to the toggle handler.
\* A press of a key that is already down is the keyboard's key repeat.
KeyPress(k) ==
    /\ pc[KB] = "idle"
    /\ env' = [env EXCEPT !.held = @ \cup {k}]
    /\ PushToTalkCheck(hk.current_keys \cup {KeyName(k)}, "kb_toggle")
    \* history: the chord went down while a session was live
    /\ hist' = IF /\ push_to_talk_keys \subseteq hk.current_keys \cup {KeyName(k)}
                  /\ ~hk.ptt_is_active
               THEN [hist EXCEPT !.ptt_pressed = (hist.live = 1),
                                 !.ptt_starts = IF @ < 2 THEN @ + 1 ELSE @]
               ELSE hist
    /\ UNCHANGED <<now, rec, record_lock, app, hey>>

\* _on_key_release, hotkey_manager.py lines 72-87
KeyRelease(k) ==
    /\ pc[KB] = "idle"
    /\ k \in env.held
    /\ env' = [env EXCEPT !.held = @ \ {k}]
    /\ PushToTalkCheck(hk.current_keys \ {KeyName(k)}, "idle")
    /\ hist' = [hist EXCEPT
                !.hold_fires =
                    IF ChordDown(toggle_recording_keys, env.held \ {k})
                    THEN @ ELSE 0,
                !.ptt_starts =
                    IF ChordDown(push_to_talk_keys, env.held \ {k})
                    THEN @ ELSE 0]
    /\ UNCHANGED <<now, rec, record_lock, app, hey>>

\* ToggleRecordingHandler.check_activation, toggle_recording.py lines 21-39,
\* called last by _on_key_press; on_toggle_recording calls toggle_recording
ToggleKeysPressed ==
    /\ toggle_recording_keys # {}
    /\ toggle_recording_keys \subseteq hk.current_keys

\* line 32: the debounce
DebounceNone == TRUE
DebounceOver == now - hk.last_toggle_time > debounce_delay

ToggleFires == ToggleKeysPressed /\ DebounceOver

KbToggle ==
    /\ pc[KB] = "kb_toggle"
    /\ IF ToggleFires
       THEN /\ hk' = [hk EXCEPT !.last_toggle_time = now]
            /\ Goto(KB, "toggle_set")
            /\ hist' = [hist EXCEPT
                  !.prev_fire = hist.last_fire,
                  !.last_fire = now,
                  !.hold_fires = IF @ < 2 THEN @ + 1 ELSE @,
                  !.toggle_events =
                      LastTwo(Append(@, [at |-> now, fired |-> TRUE]))]
       ELSE /\ Goto(KB, "idle")
            /\ hist' = [hist EXCEPT !.toggle_events =
                  IF ToggleKeysPressed
                  THEN LastTwo(Append(@, [at |-> now, fired |-> FALSE]))
                  ELSE @]
            /\ UNCHANGED hk
    /\ UNCHANGED <<now, rec, record_lock, app, hey, loc, env>>

\* -------------------------------------------- AudioRecorder._audio_callback
\* line 95-96, on PortAudio's thread: a running stream calls back with a frame
\* of RMS level r.  Returning paComplete ends the stream's callbacks.
CallbackEnter(r) ==
    /\ pc[CB] = "idle"
    /\ rec.stream = "active"
    /\ IF ~rec.is_recording
       THEN /\ rec' = [rec EXCEPT !.stream = "complete"]
            /\ UNCHANGED <<pc, loc, env>>
       ELSE /\ env.frames < MaxFrames
            /\ env' = [env EXCEPT !.frames = @ + 1]
            /\ loc' = [loc EXCEPT ![CB].frame =
                            [n |-> env.frames + 1, rms |-> r]]
            /\ Goto(CB, "cb_body")
            /\ UNCHANGED rec
    /\ hist' = IF rec.is_recording
               THEN [hist EXCEPT !.delivered =
                        Append(@, [n |-> env.frames + 1, rms |-> r])]
               ELSE hist
    /\ UNCHANGED <<now, record_lock, app, hk, hey>>

\* the frame counts as silence (line 107)
\* with the threshold read from the configuration at every frame (line 105)
IsSilentOrAtThreshold(rms) == rms <= app.config.voice_activation_threshold
IsSilent(rms) == rms < app.config.voice_activation_threshold

\* the return value of the callback: paComplete after scheduling the auto-stop
\* (line 113), else paContinue (line 120)
AfterScheduleContinue == "active"
AfterSchedule == "complete"

\* line 100: self.audio_data.append(audio_chunk)
ReplaceChunks(data, f) == <<f>>
AppendChunk(data, f) == Append(data, f)

\* lines 93-120 take no lock: the callback runs whoever holds _record_lock
CallbackRunsWithLock == CanAcquire(CB)
CallbackRuns == TRUE

\* lines 99-120: append the chunk; with auto-stop on, track the silence and
\* schedule _trigger_auto_stop on a threading.Timer once it has lasted longer
\* than silence_timeout
CallbackBody ==
    /\ pc[CB] = "cb_body"
    /\ CallbackRuns
    /\ LET f == loc[CB].frame
           data == AppendChunk(rec.audio_data, f)
           schedule == /\ rec.auto_stop_enabled
                       /\ IsSilent(f.rms)
                       /\ rec.silence_start # None
                       /\ now - rec.silence_start > rec.silence_timeout
       IN /\ rec' = [rec EXCEPT
                !.audio_data = data,
                !.silence_start =
                    IF ~rec.auto_stop_enabled THEN @
                    ELSE IF ~IsSilent(f.rms) THEN None
                    ELSE IF @ = None THEN now
                    ELSE @,
                !.stream = IF schedule THEN AfterSchedule ELSE @]
          /\ pc' = [pc EXCEPT ![CB] = "idle",
                              ![TIMER] = IF schedule THEN "timer_wait" ELSE @]
          /\ hist' = [hist EXCEPT
                !.scheduled = IF schedule /\ @ < 2 THEN @ + 1 ELSE @,
                !.sched_gap = IF ~schedule THEN @
                              ELSE IF hist.run_start = None THEN None
                              ELSE now - hist.run_start,
                !.run_start =
                    IF f.rms >= app.config.voice_activation_threshold THEN None
                    ELSE IF @ = None THEN now
                    ELSE @,
                !.reset_seen = @ \/ (f.rms >= app.config.voice_activation_threshold
                                      /\ hist.run_start # None),
                !.overdue = @ \/ (/\ rec.auto_stop_enabled
                                   /\ f.rms < app.config.voice_activation_threshold
                                   /\ hist.run_start # None
                                   /\ now - hist.run_start >
                                          app.config.silence_timeout)]
    /\ loc' = [loc EXCEPT ![CB] = NoLocals]
    /\ UNCHANGED <<now, record_lock, app, hk, hey, env>>

\* _trigger_auto_stop (lines 122-125) and _on_auto_stop_triggered
\* (main_app.py lines 135-139), on the timer's thread
TimerFire ==
    /\ pc[TIMER] = "timer_wait"
    /\ IF app.is_recording
       THEN CallStop(TIMER, "auto_stop", "off")
       ELSE Goto(TIMER, "off") /\ UNCHANGED loc
    /\ UNCHANGED <<now, rec, record_lock, app, hk, hey, env, hist>>

\* ------------------------------------------------- voice-assistant session
\* on_voice_assistant_activated, main_app.py lines 110-114: a session thread
\* is started unless a recording is in progress
OnVoiceAssistantActivated ==
    IF ~app.is_recording
    THEN /\ pc[VA] = "off"
         /\ CallStart(VA, "va", TRUE, "va_begin")
    ELSE UNCHANGED <<pc, loc>>

\* the wake-word listener's call, when the listener itself is not modelled
WakeWordCallback ==
    /\ pc[VA] = "off"
    /\ OnVoiceAssistantActivated
    /\ UNCHANGED <<now, rec, record_lock, app, hk, hey, env, hist>>

\* _voice_assistant_session, lines 122-123
VaBegin ==
    /\ pc[VA] = "va_begin"
    /\ loc' = [loc EXCEPT ![VA].start_time = now]
    /\ Goto(VA, "va_wait")
    /\ UNCHANGED <<now, rec, record_lock, app, hk, hey, env, hist>>

\* lines 125-126: the polling loop ends when the recording has ended or the
\* time is up
VaWaitOver ==
    ~(app.is_recording /\
      now - loc[VA].start_time < auto_stop_timeout + force_stop_slack)

\* lines 128-130: force stop if still recording
VaForceStop ==
    /\ pc[VA] = "va_wait"
    /\ VaWaitOver
    /\ IF app.is_recording
       THEN CallStop(VA, "va_force", "off")
       ELSE Goto(VA, "off") /\ loc' = [loc EXCEPT ![VA] = NoLocals]
    /\ UNCHANGED <<now, rec, record_lock, app, hk, hey, env, hist>>

\* ---------------------------------------------------------- HeySoffyHandler
\* _listen_worker, hey_soffy.py lines 67-81: the listener opens its own input
\* stream; if that raises, the worker ends
HeySetup ==
    /\ pc[HEY] = "hey_setup"
    /\ \E outcome \in {"ok", "open_raises"} :
         /\ outcome # "ok" => env.faults < MaxFaults
         /\ hey' = [hey EXCEPT !.stream = IF outcome = "ok" THEN "active" ELSE @]
         /\ env' = [env EXCEPT !.faults = IF outcome = "ok" THEN @ ELSE @ + 1]
         /\ Goto(HEY, IF outcome = "ok" THEN "hey_listening" ELSE "off")
    /\ UNCHANGED <<now, rec, record_lock, app, hk, loc, hist>>

\* lines 91-93: keep only the last n samples
KeepFirst(buffer, n) ==
    IF Len(buffer) > n THEN SubSeq(buffer, 1, n) ELSE buffer
KeepLast(buffer, n) ==
    IF Len(buffer) > n
    THEN SubSeq(buffer, Len(buffer) - n + 1, Len(buffer))
    ELSE buffer

max_samples == buffer_duration * sample_rate

\* the samples of the next frame read, numbered in arrival order
NextChunk(read) == [i \in 1..listen_chunk |-> read + i]

\* _detect_voice_activity, lines 127-131
DetectVoiceActivity(rms) == rms > app.config.voice_activation_threshold

\* line 98: the cooldown since the last detection
CooldownNone(t) == TRUE
CooldownOver(t) == t - hey.last_detection_time > cooldown_period

\* lines 83-98: one frame is read and appended to the rolling buffer; a voiced
\* frame after the cooldown leads to a phrase check
HeyRead(r) ==
    /\ pc[HEY] = "hey_listening"
    /\ hey.is_listening
    /\ hist.samples_read < MaxWakeFrames * listen_chunk
    /\ hey' = [hey EXCEPT !.audio_buffer =
                  KeepLast(@ \o NextChunk(hist.samples_read), max_samples)]
    /\ hist' = [hist EXCEPT !.samples_read = @ + listen_chunk]
    /\ IF DetectVoiceActivity(r) /\ CooldownOver(now)
       THEN /\ loc' = [loc EXCEPT ![HEY].current_time = now]
            /\ Goto(HEY, "hey_checking")
       ELSE UNCHANGED <<pc, loc>>
    /\ UNCHANGED <<now, rec, record_lock, app, hk, env>>

\* _check_for_wake_word, lines 133-172: the speech model's answer comes after
\* some time; less than one second of audio is never a match.  On a match
\* line 100 stores the time read before the check.
HeyCheck(match) ==
    /\ pc[HEY] = "hey_checking"
    /\ IF match /\ Len(hey.audio_buffer) >= sample_rate
       THEN /\ hey' = [hey EXCEPT
                  !.last_detection_time = loc[HEY].current_time]
            /\ hist' = [hist EXCEPT
                  !.prev_detection = hist.last_detection,
                  !.last_detection = loc[HEY].current_time]
            /\ Goto(HEY, "hey_pause")
       ELSE /\ Goto(HEY, "hey_listening")
            /\ UNCHANGED <<hey, hist>>
    /\ loc' = [loc EXCEPT ![HEY] = NoLocals]
    /\ UNCHANGED <<now, rec, record_lock, app, hk, env>>

\* the phrase check on the text the speech model hears in the buffer
HeyCheckHeard == HeyCheck(CheckForWakeWord(hey.wake_word, env.heard))

\* _on_wake_word_detected, lines 174-183: after the pause of 0.3 s the
\* application is called
HeyActivate ==
    /\ pc[HEY] = "hey_pause"
    /\ IF ~app.is_recording
       THEN /\ pc[VA] = "off"
            /\ pc' = [pc EXCEPT ![HEY] = "hey_listening", ![VA] = "start_enter"]
            /\ loc' = [loc EXCEPT ![VA].via = "va", ![VA].auto_stop = TRUE,
                                  ![VA].after = "va_begin"]
       ELSE /\ Goto(HEY, "hey_listening")
            /\ UNCHANGED loc
    /\ hist' = [hist EXCEPT !.prev_call = hist.last_call, !.last_call = now]
    /\ UNCHANGED <<now, rec, record_lock, app, hk, hey, env>>

\* where the worker goes after an exception of one pass of its loop: the
\* except of lines 104-106 logs it, sleeps 0.1 s and the loop goes on
AfterLoopErrorEnds == "off"
AfterLoopError == "hey_listening"

\* lines 85-106: stream.read or the processing of the frame raises, or the
\* speech model raises inside _check_for_wake_word (caught at lines 168-169,
\* the check then answers False), or the sound or the application's call
\* raises inside _on_wake_word_detected
HeyLoopError ==
    /\ \/ pc[HEY] = "hey_listening" /\ hey.is_listening
       \/ pc[HEY] \in {"hey_checking", "hey_pause"}
    /\ env.faults < MaxFaults
    /\ env' = [env EXCEPT !.faults = @ + 1]
    /\ hist' = [hist EXCEPT !.loop_errors = Append(@, hist.samples_read)]
    /\ loc' = [loc EXCEPT ![HEY] = NoLocals]
    /\ Goto(HEY, AfterLoopError)
    /\ UNCHANGED <<now, rec, record_lock, app, hk, hey>>

\* the worker's loop ends when is_listening is False; _cleanup_audio, lines
\* 114-125, closes the stream, suppressing an exception of close
HeyWorkerExit ==
    /\ pc[HEY] = "hey_listening"
    /\ ~hey.is_listening
    /\ \E outcome \in {"ok", "close_raises"} :
         /\ outcome # "ok" => env.faults < MaxFaults /\ hey.stream = "active"
         /\ hey' = [hey EXCEPT !.stream = IF outcome = "ok" THEN "None" ELSE @]
         /\ env' = [env EXCEPT !.faults = IF outcome = "ok" THEN @ ELSE @ + 1]
    /\ Goto(HEY, "off")
    /\ UNCHANGED <<now, rec, record_lock, app, hk, loc, hist>>

\* ----------------------------------------------------------------- shutdown
\* The main loop ends: through quit_application (main_app.py 274-280), which
\* runs cleanup and is followed by the cleanup of run's finally block
\* (lines 293-303), or by an exception of the main loop with that cleanup only
Quit(cleanups) ==
    /\ pc[GUI] = "idle"
    /\ app.cleanups_left = 0
    /\ app' = [app EXCEPT !.cleanups_left = cleanups]
    /\ Goto(GUI, "cleanup_stop")
    /\ UNCHANGED <<now, rec, record_lock, hk, hey, loc, env, hist>>

\* cleanup, main_app.py 285-286: if self.is_recording:
\* self.audio_recorder.stop_recording()
CleanupStop ==
    /\ pc[GUI] = "cleanup_stop"
    /\ IF app.is_recording
       THEN CallStop(GUI, "cleanup", "cleanup_recorder")
       ELSE Goto(GUI, "cleanup_recorder") /\ UNCHANGED loc
    /\ UNCHANGED <<now, rec, record_lock, app, hk, hey, env, hist>>

\* AudioRecorder.cleanup, audio_recorder.py 146-147: if self.is_recording:
\* self.stop_recording()
CleanupRecorder ==
    /\ pc[GUI] = "cleanup_recorder"
    /\ IF rec.is_recording
       THEN CallStop(GUI, "cleanup", "cleanup_close")
       ELSE Goto(GUI, "cleanup_close") /\ loc' = [loc EXCEPT ![GUI] = NoLocals]
    /\ UNCHANGED <<now, rec, record_lock, app, hk, hey, env, hist>>

\* AudioRecorder.cleanup, audio_recorder.py 148-152: a stream still
\* referenced is closed and PyAudio is terminated, which closes every stream
\* it has open; an exception of close is caught after skipping terminate
CleanupClose ==
    /\ pc[GUI] = "cleanup_close"
    /\ \E outcome \in {"ok", "close_raises"} :
         /\ outcome # "ok" => env.faults < MaxFaults /\ rec.stream # "None"
         /\ rec' = [rec EXCEPT !.terminated = @ \/ (outcome = "ok"),
                               !.stream = IF outcome = "ok" /\ @ # "None"
                                          THEN "closed" ELSE @]
         /\ env' = [env EXCEPT
                !.faults = IF outcome = "ok" THEN @ ELSE @ + 1,
                !.open_streams = IF outcome = "ok" THEN 0 ELSE @]
    /\ Goto(GUI, "cleanup_hotkeys")
    /\ loc' = [loc EXCEPT ![GUI] = NoLocals]
    /\ UNCHANGED <<now, record_lock, app, hk, hey, hist>>

\* what cleanup does next when keyboard_listener.stop() raised: nothing
\* catches it before cleanup's own except (main_app.py 290-291)
AfterHotkeyError == "cleanup_end"

\* HotkeyManager.stop_listening, hotkey_manager.py 43-48
CleanupHotkeys ==
    /\ pc[GUI] = "cleanup_hotkeys"
    /\ \E outcome \in {"ok", "stop_raises"} :
         /\ outcome # "ok" =>
                env.faults < MaxFaults /\ hk.keyboard_listener # "None"
         /\ hk' = [hk EXCEPT !.keyboard_listener =
                        IF outcome = "ok" THEN "None" ELSE @]
         /\ env' = [env EXCEPT !.faults = IF outcome = "ok" THEN @ ELSE @ + 1]
         /\ Goto(GUI, IF outcome = "ok" THEN "cleanup_hey" ELSE AfterHotkeyError)
    /\ UNCHANGED <<now, rec, record_lock, app, hey, loc, hist>>

\* HeySoffyHandler.stop_listening, hey_soffy.py 51-65: the flag is cleared,
\* the stream is stopped and closed, an exception of either is suppressed
StopListening ==
    \E outcome \in {"ok", "close_raises"} :
       /\ outcome # "ok" => env.faults < MaxFaults /\ hey.stream = "active"
       /\ hey' = [hey EXCEPT
              !.is_listening = FALSE,
              !.stream = IF outcome = "ok" /\ @ # "None" THEN "closed" ELSE @]
       /\ env' = [env EXCEPT !.faults = IF outcome = "ok" THEN @ ELSE @ + 1]

\* cleanup, main_app.py 289
CleanupHey ==
    /\ pc[GUI] = "cleanup_hey"
    /\ StopListening
    /\ Goto(GUI, "cleanup_end")
    /\ UNCHANGED <<now, rec, record_lock, app, hk, loc, hist>>

\* toggle_voice_assistant, main_window.py 177-190: the switch is turned off
ToggleVoiceAssistantOff ==
    /\ pc[GUI] = "idle"
    /\ hey.is_listening
    /\ StopListening
    /\ UNCHANGED <<now, rec, record_lock, app, hk, pc, loc, hist>>

\* cleanup returns: to quit_application, with run's finally block still to
\* come, or to the end of the process
CleanupEnd ==
    /\ pc[GUI] = "cleanup_end"
    /\ app' = [app EXCEPT !.cleanups_left = @ - 1]
    /\ Goto(GUI, IF app.cleanups_left > 1 THEN "cleanup_stop" ELSE "exited")
    /\ UNCHANGED <<now, rec, record_lock, hk, hey, loc, env, hist>>

\* ----------------------------------------------------------- configuration
\* ConfigManager.set, config_manager.py 104-110, called by the settings
\* window on the Tk thread
ConfigSet(key, value) ==
    /\ pc[GUI] = "idle"
    /\ app.config[key] # value
    /\ app' = [app EXCEPT !.config[key] = value]
    /\ UNCHANGED <<now, rec, record_lock, hk, hey, pc, loc, env, hist>>

\* ------------------------------------------------------------------- clock
\* threads that wait for time to pass or for an event
Blocked(t) ==
    pc[t] \in {"idle", "off", "va_wait", "tr_run",
               "hey_setup", "hey_listening", "hey_checking", "hey_pause"}

\* d ticks pass while every thread waits
Elapse(d, limit) ==
    /\ now + d <= limit
    /\ \A t \in DOMAIN pc : Blocked(t)
    /\ now' = now + d
    /\ UNCHANGED <<rec, record_lock, app, hk, hey, pc, loc, env, hist>>

Tick == Elapse(1, MaxTime)

\* -------------------------------------------------------------------- Init
\* The objects after construction, with the wake phrase and the
\* post-processing flags of the configuration file and the text the speech
\* model recognizes in the audio it is given.
\* AudioRecorder.__init__ copies audio.silence_timeout (audio_recorder.py:28)
\* and HeySoffyHandler.__init__ the lower-cased wake phrase (hey_soffy.py:24).
InitWith(wake_word, heard, behavior) ==
    /\ now = StartTime
    /\ rec = [is_recording |-> FALSE, stream |-> "None", audio_data |-> <<>>,
              auto_stop_enabled |-> FALSE, silence_start |-> None,
              terminated |-> FALSE, silence_timeout |-> silence_timeout]
    /\ record_lock = NoThread
    /\ app = [is_recording |-> FALSE, is_toggle_mode |-> FALSE,
              status |-> "Ready", cleanups_left |-> 0,
              config |-> [voice_activation_threshold |->
                              voice_activation_threshold,
                          silence_timeout |-> silence_timeout,
                          wake_word |-> wake_word,
                          behavior |-> behavior]]
    /\ hk = [current_keys |-> {}, ptt_is_active |-> FALSE,
             last_toggle_time |-> 0, keyboard_listener |-> "running"]
    /\ hey = [is_listening |-> TRUE, stream |-> "None", audio_buffer |-> <<>>,
              last_detection_time |-> 0, wake_word |-> Lower(wake_word),
              other_workers |-> 0]
    /\ pc = [t \in Workers \cup {CB, HEY, TR} |->
                IF t \in {VA, TIMER, TR} THEN "off"
                ELSE IF t = HEY THEN "hey_setup" ELSE "idle"]
    /\ loc = [t \in Workers \cup {CB, HEY, TR} |-> NoLocals]
    /\ env = [held |-> {}, faults |-> 0, open_streams |-> 0, frames |-> 0,
              heard |-> heard]
    /\ hist = [live |-> 0, started_by |-> "none",
               delivered |-> <<>>, obtained |-> 0,
               scheduled |-> 0, run_start |-> None, overdue |-> FALSE,
               ptt_pressed |-> FALSE, ptt_starts |-> 0,
               transcribed |-> "none", pasted |-> <<>>,
               paste_text |-> NotCalled,
               reset_seen |-> FALSE, sched_gap |-> None, ended_by |-> "none",
               samples_read |-> 0, loop_errors |-> <<>>,
               last_detection |-> None, prev_detection |-> None,
               last_call |-> None, prev_call |-> None,
               last_fire |-> None, prev_fire |-> None, hold_fires |-> 0,
               toggle_events |-> <<>>]

\* behavior.* of the default config, config_manager.py
default_behavior ==
    [remove_filler_words |-> TRUE, capitalize_sentences |-> TRUE,
     auto_punctuation |-> TRUE]

\* what is said near the microphone unless a specification chooses it
default_heard == <<"a">>

Init == InitWith(default_wake_word, default_heard, default_behavior)

\* the steps of start_recording and stop_recording_and_transcribe
RecorderCalls(t) ==
    \/ StartEnter(t) \/ StartOpen(t) \/ StartRet(t)
    \/ StopEnter(t) \/ StopSet(t) \/ StopClose(t)
    \/ StopRet(t) \/ StopMode(t)

Procedure(t) ==
    \/ RecorderCalls(t)
    \/ ToggleSet(t) \/ ToggleCheck(t)

\* ---------------------------------------------------------- specifications
\* The keys of the push-to-talk chord
PttChord == {"ctrl_l", "space"}

\* Three triggers racing for the recorder: the keyboard listener with the
\* push-to-talk chord, the record button and a voice-assistant session.  The
\* clock stands still and the stream delivers no frame.
NextRace ==
    \/ \E k \in PttChord : KeyPress(k) \/ KeyRelease(k)
    \/ KbToggle
    \/ GuiClick
    \/ WakeWordCallback
    \/ VaBegin
    \/ VaForceStop
    \/ \E t \in {KB, GUI, VA} : Procedure(t)

SpecRace == Init /\ [][NextRace]_vars

\* a voiced frame of a short session
ShortSessionFrame ==
    /\ env.frames < MaxPttFrames
    /\ CallbackEnter(voice_activation_threshold + 1)

\* a voiced frame of a session two triggers race for
RaceFrame ==
    /\ env.frames < MaxRaceFrames
    /\ CallbackEnter(voice_activation_threshold + 1)

\* Push-to-talk against the record button, with the recorder's stream
\* delivering voiced frames.
NextPtt ==
    \/ \E k \in PttChord : KeyPress(k) \/ KeyRelease(k)
    \/ KbToggle
    \/ GuiClick
    \/ RaceFrame
    \/ CallbackBody
    \/ \E t \in {KB, GUI} : Procedure(t)

SpecPtt == Init /\ [][NextPtt]_vars

\* Push-to-talk against a voice-assistant session.
NextVoice ==
    \/ \E k \in PttChord : KeyPress(k) \/ KeyRelease(k)
    \/ KbToggle
    \/ WakeWordCallback
    \/ VaBegin
    \/ VaForceStop
    \/ CallbackEnter(3)
    \/ CallbackBody
    \/ \E t \in {KB, VA} : RecorderCalls(t)

SpecVoice == Init /\ [][NextVoice]_vars

\* The keyboard listener alone with the keys of the toggle chord, and the
\* clock.
ToggleChord == {"ctrl_l", "shift", "r"}

NextToggle ==
    \/ \E k \in ToggleChord : KeyPress(k) \/ KeyRelease(k)
    \/ KbToggle
    \/ Procedure(KB)
    \/ Tick

SpecToggle == Init /\ [][NextToggle]_vars

\* ------------------------------------------------------------------ claims
\* C1: whatever the interleaving of start requests of the keyboard listener,
\* the record button and the voice-assistant session, at most one of them
\* makes the recorder Active: recording sessions never overlap, the recorder
\* is Active exactly while one session is live, the lock-protected sections
\* exclude each other and, as long as no device call has raised, at most one
\* recorder stream is open.
C1_OneActiveSession ==
    /\ hist.live <= 1
    /\ rec.is_recording <=> hist.live = 1
    /\ Cardinality({t \in Workers :
            pc[t] \in {"start_open", "stop_set", "stop_close"}}) <= 1
    /\ env.faults = 0 => env.open_streams <= 1

\* a start request is rejected while the session of another request is live
C1_Witness ==
    /\ env.faults = 0
    /\ hist.live = 1
    /\ \E t \in Workers : pc[t] = "start_ret" /\ ~loc[t].success
    /\ \E t \in Workers : pc[t] = "start_ret" /\ loc[t].success

\* C2: a stop_recording call that finds the recorder Idle returns None at once
\* and changes no field of the recorder (is_recording, stream, audio_data,
\* auto_stop_enabled, silence_start).
C2_StopIdleNoChange ==
    [][\A t \in Workers :
         (pc[t] = "stop_enter" /\ pc'[t] # "stop_enter" /\ ~rec.is_recording)
         => /\ pc'[t] = "stop_ret"
            /\ ~loc'[t].has_audio
            /\ rec' = rec
            /\ record_lock' = record_lock]_vars

\* a stop call has returned None from an Idle recorder that still holds the
\* audio of an earlier session
C2_Witness ==
    \E t \in Workers :
        /\ pc[t] = "stop_ret"
        /\ loc[t].found = "idle"
        /\ rec.audio_data # <<>>
        /\ rec.stream = "None"

\* C3: while a recording started in toggle mode (toggle hotkey or record
\* button) is Active, pressing and then releasing the push-to-talk chord
\* never stops it: on_push_to_talk_end never gets as far as clearing the
\* recorder's flag for a toggle session during which the chord went down.
C3_TogglePrecedence ==
    ~(/\ pc[KB] = "stop_set"
      /\ loc[KB].via = "ptt_end"
      /\ hist.ptt_pressed
      /\ hist.started_by = "toggle")

\* C4: a push-to-talk press and release during a session that another
\* trigger started, a wake-word session for one, never stops that session.
C4_PttStopsOnlyItsOwn ==
    ~(/\ pc[KB] = "stop_set"
      /\ loc[KB].via = "ptt_end"
      /\ hist.ptt_pressed
      /\ hist.started_by = "va")

\* C5 as claimed: of two successive key-press events with the toggle chord
\* held that are within the debounce window of each other, exactly one
\* invokes on_toggle_recording.
C5_ExactlyOneOfTwo ==
    (/\ Len(hist.toggle_events) = 2
     /\ hist.toggle_events[2].at - hist.toggle_events[1].at <= debounce_delay)
    => (hist.toggle_events[1].fired # hist.toggle_events[2].fired)

\* C5 as amended: of two such events at most one invokes on_toggle_recording,
\* and two consecutive fires are more than the debounce window apart.
C5_AtMostOneOfTwo ==
    /\ (/\ Len(hist.toggle_events) = 2
        /\ hist.toggle_events[2].at - hist.toggle_events[1].at
               <= debounce_delay)
       => ~(hist.toggle_events[1].fired /\ hist.toggle_events[2].fired)
    /\ hist.prev_fire # None => hist.last_fire - hist.prev_fire > debounce_delay
    /\ hist.last_fire # None => hk.last_toggle_time = hist.last_fire

\* the chord was pressed twice within the window and fired once, and the
\* handler has fired before
C5_Witness ==
    /\ Len(hist.toggle_events) = 2
    /\ hist.toggle_events[2].at - hist.toggle_events[1].at <= debounce_delay
    /\ hist.toggle_events[1].fired
    /\ ~hist.toggle_events[2].fired
    /\ hist.prev_fire # None

\* C6: the toggle handler fires at most once while the chord stays down.
C6_FiresOnRisingEdgeOnly == hist.hold_fires <= 1

\* ---------------------------------------------------------------- auto-stop
\* A voice-assistant session with the stream delivering frames just below
\* and exactly at the threshold while the clock advances; the deferred stop
\* runs on the timer's thread.
NextAutoStop ==
    \/ WakeWordCallback
    \/ VaBegin
    \/ VaForceStop
    \/ \E r \in {voice_activation_threshold - 1, voice_activation_threshold} :
          CallbackEnter(r)
    \/ CallbackBody
    \/ TimerFire
    \/ \E t \in {VA, TIMER} : RecorderCalls(t)
    \/ Tick

SpecAutoStop == Init /\ [][NextAutoStop]_vars

\* C7: in a session started with auto-stop, once the frames have been below
\* the threshold for longer than silence_timeout the callback schedules the
\* deferred stop exactly once (not zero times, not twice), and when that
\* deferred stop has run the session is over, ended by it.
C7_OneDeferredStop ==
    /\ hist.scheduled <= 1
    /\ hist.overdue => hist.scheduled = 1
    /\ (hist.scheduled = 1 /\ pc[TIMER] = "off") =>
           /\ hist.live = 0
           /\ ~rec.is_recording
           /\ hist.ended_by = "auto_stop"

C7_Witness ==
    /\ hist.overdue
    /\ hist.scheduled = 1
    /\ pc[TIMER] = "off"
    /\ hist.ended_by = "auto_stop"
    /\ ~app.is_recording

\* C8: a frame at or above the threshold unsets silence_start, so that
\* silence_start is always the time of the first frame of the current
\* unbroken run of frames below the threshold, and a deferred stop is only
\* scheduled when that run has lasted longer than silence_timeout.
C8_VoicedFrameResets ==
    /\ rec.auto_stop_enabled => rec.silence_start = hist.run_start
    /\ hist.scheduled >= 1 =>
           hist.sched_gap # None /\ hist.sched_gap > silence_timeout

C8_Witness ==
    /\ hist.reset_seen
    /\ hist.scheduled = 1
    /\ \E i \in 1..Len(rec.audio_data) :
          rec.audio_data[i].rms = voice_activation_threshold

\* ---------------------------------------------------------------- wake word
\* The wake-word listener reading frames at or above the threshold, its
\* phrase check answering either way, and the sessions it starts.
NextWake ==
    \/ HeySetup
    \/ \E r \in {voice_activation_threshold, voice_activation_threshold + 1} :
          HeyRead(r)
    \/ \E match \in BOOLEAN : HeyCheck(match)
    \/ HeyActivate
    \/ VaBegin
    \/ VaForceStop
    \/ CallbackEnter(1)
    \/ CallbackBody
    \/ TimerFire
    \/ \E t \in {VA, TIMER} : RecorderCalls(t)
    \/ Tick

SpecWake == Init /\ [][NextWake]_vars

\* C9 as stated: two consecutive calls of on_voice_assistant_activated by the
\* listener are more than cooldown_period apart.
C9_CallsSpaced ==
    hist.prev_call # None => hist.last_call - hist.prev_call > cooldown_period

\* C9: the frame times of two consecutive detections, which are the values
\* last_detection_time takes, are more than cooldown_period apart, so a
\* second match within the cooldown of the first gives no second activation;
\* every detection is followed by its call of on_voice_assistant_activated
\* and there is no call without one.
C9_DetectionsSpaced ==
    /\ hist.prev_detection # None =>
           hist.last_detection - hist.prev_detection > cooldown_period
    /\ hist.last_detection # None =>
           hey.last_detection_time = hist.last_detection
    /\ hist.last_call # None => hist.last_detection # None
    /\ (hist.last_detection # None /\ pc[HEY] # "hey_pause") =>
           hist.last_call # None /\ hist.last_call >= hist.last_detection

C9_Witness ==
    /\ hist.prev_detection # None
    /\ hist.prev_call # None
    /\ hist.last_call >= hist.last_detection

\* C10: the rolling buffer never holds more than buffer_duration *
\* sample_rate samples, and it holds the most recent samples read, in the
\* order they were read.
C10_RollingBuffer ==
    LET n == Len(hey.audio_buffer)
    IN  /\ n <= max_samples
        /\ n = IF hist.samples_read < max_samples
               THEN hist.samples_read ELSE max_samples
        /\ \A i \in 1..n : hey.audio_buffer[i] = hist.samples_read - n + i

C10_Witness ==
    /\ Len(hey.audio_buffer) = max_samples
    /\ hey.audio_buffer[1] > 1
    /\ hist.samples_read > max_samples + listen_chunk

\* -------------------------------------------------------- recorded frames
\* Sessions started and stopped with the record button, one after another,
\* while the stream delivers frames below and above the threshold.
MixedFrame ==
    /\ env.frames < MaxMixedFrames
    /\ \E r \in {voice_activation_threshold - 1,
                  voice_activation_threshold + 1} : CallbackEnter(r)

NextFrames ==
    \/ GuiClick
    \/ MixedFrame
    \/ CallbackBody
    \/ Procedure(GUI)

SpecFrames == Init /\ [][NextFrames]_vars

\* C11: as long as no device call has raised, a stop_recording of an Active
\* recorder returns exactly the frames delivered to the callback since the
\* session's start, in delivery order: none lost, duplicated, reordered or
\* carried over from an earlier session; with no frame delivered it returns
\* None.
C11_StopReturnsFrames ==
    [][\A t \in Workers :
         (pc[t] = "stop_close" /\ pc'[t] = "stop_ret" /\ env'.faults = 0)
         => /\ loc'[t].audio = hist.delivered
            /\ loc'[t].has_audio <=> hist.delivered # <<>>
            /\ \A i \in 1..Len(loc'[t].audio) : loc'[t].audio[i].n = i]_vars

\* a stop has returned three frames of differing levels
C11_Witness ==
    /\ pc[GUI] = "stop_ret"
    /\ loc[GUI].found = "active"
    /\ env.faults = 0
    /\ Len(loc[GUI].audio) = 3
    /\ loc[GUI].audio[1].rms # loc[GUI].audio[2].rms

\* C12: a start_recording call that finds the recorder Active returns False
\* and changes neither a field of the recorder (buffer, auto_stop_enabled,
\* silence_start, stream, is_recording) nor the device.
C12_RejectedStartNoChange ==
    [][\A t \in Workers :
         (pc[t] = "start_enter" /\ pc'[t] # "start_enter" /\ rec.is_recording)
         => /\ pc'[t] = "start_ret"
            /\ ~loc'[t].success
            /\ rec' = rec
            /\ rec'.is_recording
            /\ env' = env
            /\ record_lock' = record_lock]_vars

\* a start has been rejected while the running session holds frames
C12_Witness ==
    \E t \in Workers :
        /\ pc[t] = "start_ret"
        /\ loc[t].outcome = "rejected"
        /\ rec.is_recording
        /\ rec.audio_data # <<>>

\* ------------------------------------------------------------------- keys
\* The keyboard alone: both control keys, the space bar and a key that
\* belongs to no chord.
AllKeys == {"ctrl_l", "ctrl_r", "space", "x"}

NextKeys ==
    \/ \E k \in AllKeys : KeyPress(k) \/ KeyRelease(k)
    \/ KbToggle
    \/ RecorderCalls(KB)

SpecKeys == Init /\ [][NextKeys]_vars

\* C13: while the push-to-talk chord is physically held (a control key and
\* the space bar are down), on_push_to_talk_start has been invoked exactly
\* once since the chord went down, whatever other key events arrived.
C13_OncePerHold ==
    /\ hist.ptt_starts <= 1
    /\ ChordDown(push_to_talk_keys, env.held) => hist.ptt_starts = 1

\* C26: current_keys is the set of the canonical names of the keys that are
\* physically held, also when both variants of a modifier were pressed and
\* one of them has been released.
C26_KeysPhysicallyHeld ==
    hk.current_keys = {KeyName(k) : k \in env.held}

\* ------------------------------------------------------------ losing start
\* C14: a start request that the recorder rejected because a session was
\* already Active (the loser of a race, or a start while recording) returns
\* without showing the status "Failed to start recording".
C14_LosingStartSilent ==
    [][\A t \in Workers :
         (/\ pc[t] = "start_ret"
          /\ pc'[t] # "start_ret"
          /\ loc[t].outcome = "rejected")
         => app'.status # "Failed to start recording"]_vars

\* ------------------------------------------------------------ racing stops
\* One voice-assistant session that may last until its forced stop is due.
\* The record button is clicked while the session is shown as recording, the
\* stream delivers silent frames, so the deferred auto-stop, the forced stop
\* of the session thread and the toggle can all ask for the stop.
\* The clock moves by the two waits of such a session: until a silence has
\* outlasted silence_timeout, and until the session's time is up.
SessionTick ==
    \E d \in {silence_timeout + 1, auto_stop_timeout + force_stop_slack} :
        Elapse(d, StartTime + MaxSessionTime)

SilentFrame ==
    /\ env.frames < MaxPttFrames
    /\ CallbackEnter(voice_activation_threshold - 1)

FirstWake ==
    /\ hist.started_by = "none"
    /\ WakeWordCallback

StopClick ==
    /\ app.is_recording
    /\ GuiClick

NextStops ==
    \/ FirstWake
    \/ VaBegin
    \/ VaForceStop
    \/ StopClick
    \/ SilentFrame
    \/ CallbackBody
    \/ TimerFire
    \/ SessionTick
    \/ \E t \in Workers : Procedure(t)

SpecStops == Init /\ [][NextStops]_vars

\* a thread is inside start_recording, stop_recording_and_transcribe or
\* toggle_recording
InCall(t) == pc[t] \notin {"idle", "off", "va_begin", "va_wait", "timer_wait"}

\* C15: of the stop requests racing for one session only one obtains the
\* buffer; when the session has recorded frames and the device has not
\* failed one of them does; the stop that holds a buffer long enough hands it
\* to a transcription thread and a stop without one hands over nothing; and
\* when all requests have returned the recorder and the application are Idle.
C15_OneSubmission ==
    /\ [](hist.obtained <= 1)
    /\ []((/\ hist.ended_by # "none"
           /\ \A t \in Workers : pc[t] # "stop_close"
           /\ env.faults = 0
           /\ hist.delivered # <<>>) => hist.obtained = 1)
    /\ []((/\ hist.ended_by # "none"
           /\ \A t \in Workers : ~InCall(t))
          => ~rec.is_recording /\ ~app.is_recording)
    /\ [][\A t \in Workers :
            (pc[t] = "stop_mode" /\ pc'[t] # "stop_mode")
            => IF loc[t].has_audio
               THEN pc'[TR] = "tr_run"
               ELSE pc'[TR] = pc[TR]]_vars

\* ----------------------------------------------------- callback and lock
\* C16: the audio callback never holds or waits for the recorder lock and
\* never runs the stop itself: a callback that has taken a frame can always
\* finish, also while a stop holds the lock and waits in stop_stream for it;
\* finishing, it leaves the recording flag and the lock alone and at most
\* arms the timer thread; every auto-stop runs on the timer thread.
C16_CallbackNeverBlocks ==
    /\ [](record_lock # CB)
    /\ [](pc[CB] = "cb_body" => ENABLED CallbackBody)
    /\ [](\A t \in Workers : loc[t].via = "auto_stop" => t = TIMER)
    /\ [][(pc[CB] = "cb_body" /\ pc'[CB] # "cb_body")
          => /\ pc'[CB] = "idle"
             /\ rec'.is_recording = rec.is_recording
             /\ record_lock' = record_lock
             /\ \A t \in Workers :
                    pc'[t] # pc[t] => t = TIMER /\ pc'[t] = "timer_wait"]_vars

\* the callback has finished and armed the timer while a stop, holding the
\* lock, was waiting for the stream to stop
C16_Witness ==
    /\ pc[CB] = "idle"
    /\ pc[TIMER] = "timer_wait"
    /\ pc[VA] = "stop_close"
    /\ record_lock = VA
    /\ Len(rec.audio_data) = Len(hist.delivered)
    /\ hist.delivered # <<>>

\* ------------------------------------------------------------- the device
\* C17: the recorder and the wake-word listener, which both open
\* config.get('audio.device_index'), never hold an open input stream at the
\* same time.
C17_OneStreamPerDevice ==
    ~(hey.stream = "active" /\ rec.stream # "None")

\* ------------------------------------------------------- device unavailable
\* C18: when audio.open raises in start_recording, the recorder stays Idle
\* with no stream and the lock free; the application shows "Failed to start
\* recording" and its flag is not set by this request, so that both are Idle
\* when the request returns; and the recorder's flag is never left set
\* without a stream, so that the next start request is not rejected.
C18_OpenFailureStaysIdle ==
    /\ [][\A t \in Workers :
            (pc[t] = "start_open" /\ pc'[t] = "start_ret"
             /\ loc'[t].outcome = "open_raises")
            => /\ ~rec'.is_recording
               /\ rec'.stream = rec.stream
               /\ env'.open_streams = env.open_streams
               /\ record_lock' = NoThread
               /\ ~loc'[t].success]_vars
    /\ [][\A t \in Workers :
            (pc[t] = "start_ret" /\ pc'[t] # "start_ret"
             /\ loc[t].outcome = "open_raises")
            => /\ app'.status = "Failed to start recording"
               /\ app'.is_recording = app.is_recording
               /\ ~app'.is_recording
               /\ ~rec'.is_recording]_vars
    /\ [](rec.is_recording => rec.stream # "None")

\* a start request has opened the stream after an earlier one failed to
\* open the device
C18_Witness ==
    /\ pc[GUI] = "start_ret"
    /\ loc[GUI].outcome = "ok"
    /\ rec.is_recording
    /\ app.status = "Failed to start recording"
    /\ env.faults = 1
    /\ env.open_streams = 1

\* ------------------------------------------------------------ transcription
\* Sessions started and stopped with the record button, the stream
\* delivering voiced frames, and the transcription threads the stops start.
NextTranscribe ==
    \/ GuiClick
    \/ ShortSessionFrame
    \/ CallbackBody
    \/ Procedure(GUI)
    \/ TranscribeAndPaste

SpecTranscribe == Init /\ [][NextTranscribe]_vars

\* C19: a stop whose recorder call returned no buffer, or one of at most
\* min_audio_length samples, shows "No audio captured", starts no
\* transcription thread, pastes nothing, and leaves the recorder and the
\* application Idle.
C19_NoAudioCaptured ==
    [][\A t \in Workers :
         (/\ pc[t] = "stop_mode"
          /\ pc'[t] # "stop_mode"
          /\ (~loc[t].has_audio \/
                SampleCount(loc[t].audio) <= min_audio_length))
         => /\ app'.status = "No audio captured"
            /\ pc'[TR] = pc[TR]
            /\ hist' = hist
            /\ ~app'.is_recording
            /\ ~rec'.is_recording]_vars

\* a session that recorded frames was stopped, the device failed to close,
\* and the stop has returned with nothing to transcribe
C19_Witness ==
    /\ pc[GUI] = "idle"
    /\ app.status = "No audio captured"
    /\ hist.ended_by = "toggle"
    /\ hist.delivered # <<>>
    /\ hist.obtained = 0
    /\ pc[TR] = "off"
    /\ hist.transcribed = "none"
    /\ ~app.is_recording

\* C20: when the speech model's call fails, whether transcribe raises or the
\* model raises inside it, the status is "Transcription error" and not the
\* "No speech detected" of an empty text.
C20_GatewayErrorReported ==
    [][(/\ pc[TR] = "tr_run"
        /\ pc'[TR] = "off"
        /\ hist'.transcribed \in {"model_raises", "not_loaded"})
       => app'.status = "Transcription error"]_vars

\* C21: a transcription thread is started only by a stop whose recorder call
\* has closed the session's stream and left the recorder Idle, and the
\* transcription thread, whatever its outcome, touches neither the recorder
\* nor the device.
C21_TranscribeAfterClose ==
    /\ [][\A t \in Workers :
            (/\ pc[t] = "stop_mode"
             /\ pc'[t] # "stop_mode"
             /\ IsLongEnough(loc[t].has_audio, loc[t].audio))
            => /\ pc'[TR] = "tr_run"
               /\ rec'.stream = "None"
               /\ ~rec'.is_recording]_vars
    /\ [][(pc[TR] = "tr_run" /\ pc'[TR] = "off")
          => rec' = rec /\ env' = env /\ record_lock' = record_lock]_vars

\* the model's call raised while transcribing a recorded session, and no
\* stream is open
C21_Witness ==
    /\ pc[TR] = "off"
    /\ hist.transcribed = "model_raises"
    /\ hist.obtained = 1
    /\ rec.stream = "None"
    /\ env.open_streams = 0
    /\ ~rec.is_recording

\* C22: while a transcription thread is running, a start request finds the
\* recorder free and opens the stream, the new session's stop returns the
\* frames delivered to it, and the text the pending transcription pastes is
\* the one heard in the buffer it was started with, not in the new session's.
C22_TranscriptionApart ==
    /\ [](pc[TR] = "tr_run" /\ pc[GUI] = "start_enter" /\ ~rec.is_recording
           => ENABLED StartEnter(GUI))
    /\ [][(pc[TR] = "tr_run" /\ pc[GUI] = "start_enter" /\ ~rec.is_recording
           /\ pc'[GUI] # "start_enter")
          => pc'[GUI] = "start_open"]_vars
    /\ [][(pc[TR] = "tr_run" /\ pc[GUI] = "stop_close"
           /\ pc'[GUI] = "stop_ret" /\ env'.faults = 0)
          => loc'[GUI].audio = hist.delivered]_vars
    /\ [][(pc[TR] = "tr_run" /\ pc'[TR] = "off"
           /\ hist'.transcribed = "text")
          => /\ hist'.pasted = loc[TR].audio
             /\ app'.status = "Text pasted successfully"
             /\ rec' = rec]_vars

\* the transcription of a session of two frames has pasted its text while
\* the next session was recording its first frame
C22_Witness ==
    /\ pc[TR] = "off"
    /\ hist.transcribed = "text"
    /\ Len(hist.pasted) = 2
    /\ rec.is_recording
    /\ Len(rec.audio_data) = 1
    /\ app.is_recording

\* ----------------------------------------------------------------- shutdown
\* Sessions started and stopped with the record button, the wake-word
\* listener opening its stream, and the end of the main loop at any moment.
NextShutdown ==
    \/ GuiClick
    \/ RaceFrame
    \/ CallbackBody
    \/ Procedure(GUI)
    \/ HeySetup
    \/ HeyWorkerExit
    \/ \E cleanups \in {1, 2} : Quit(cleanups)
    \/ CleanupStop
    \/ CleanupRecorder
    \/ CleanupClose
    \/ CleanupHotkeys
    \/ CleanupHey
    \/ CleanupEnd

SpecShutdown == Init /\ [][NextShutdown]_vars

\* C23: when cleanup returns, the recorder is not recording and the
\* wake-word listener has been told to stop, whatever failed on the way; and
\* when nothing failed the recorder's stream is closed, the keyboard
\* listener is stopped and the wake-word listener's stream is closed or its
\* worker is about to close it.
C23_ShutdownReleases ==
    [][(pc[GUI] = "cleanup_end" /\ pc'[GUI] # "cleanup_end")
       => /\ ~rec'.is_recording
          /\ ~hey'.is_listening
          /\ env'.faults = 0
               => /\ rec'.stream \in {"None", "closed"}
                  /\ env'.open_streams = 0
                  /\ hk'.keyboard_listener = "None"
                  /\ \/ hey'.stream \in {"None", "closed"}
                     \/ pc'[HEY] = "hey_listening"]_vars

\* ------------------------------------------------- the listener under errors
\* The wake-word listener with passes of its loop that raise, the sessions it
\* starts, which end by the deferred auto-stop after two silent frames, and
\* the switch that turns the listener off.
NextHeal ==
    \/ HeySetup
    \/ \E r \in {voice_activation_threshold, voice_activation_threshold + 1} :
          HeyRead(r)
    \/ \E match \in BOOLEAN : HeyCheck(match)
    \/ HeyActivate
    \/ VaBegin
    \/ VaForceStop
    \/ SilentFrame
    \/ CallbackBody
    \/ TimerFire
    \/ \E t \in {VA, TIMER} : RecorderCalls(t)
    \/ SessionTick
    \/ HeyLoopError
    \/ ToggleVoiceAssistantOff
    \/ HeyWorkerExit

SpecHeal == Init /\ [][NextHeal]_vars

InLoop(state) == state \in {"hey_listening", "hey_checking", "hey_pause"}

\* C24: an error while a frame is read or processed, or inside a phrase
\* check, is suppressed: the worker is back at the head of its loop with its
\* stream and its flag as they were; and the worker leaves its loop only when
\* is_listening has been switched off.
C24_LoopSelfHealing ==
    /\ [][hist'.loop_errors # hist.loop_errors
            => /\ pc'[HEY] = "hey_listening"
               /\ hey' = hey]_vars
    /\ [][InLoop(pc[HEY]) /\ ~InLoop(pc'[HEY]) => ~hey.is_listening]_vars

\* an error was suppressed and the listener has read another frame since
C24_Witness ==
    /\ hist.loop_errors # <<>>
    /\ hist.samples_read > hist.loop_errors[1]
    /\ InLoop(pc[HEY])
    /\ hey.is_listening

\* ------------------------------------------------------------ toggle fires
\* C27: a toggle that fires stops the recording when one is Active and starts
\* one when the system is Idle, whoever started the session: toggle_recording
\* calls the stop exactly when the recorder is recording, and when its call
\* returns the recorder and the application are Idle after a stop and, the
\* device having opened, both recording after a start.
C27_ToggleFlips ==
    [][\A t \in {KB, GUI} :
         /\ pc[t] = "toggle_check" /\ pc'[t] # "toggle_check"
              => /\ pc'[t] = "stop_enter" <=> rec.is_recording
                 /\ pc'[t] = "start_enter" <=> ~rec.is_recording
         /\ loc[t].via = "toggle" /\ pc'[t] = "idle"
              => /\ pc[t] \in {"stop_ret", "stop_mode"}
                      => ~rec'.is_recording /\ ~app'.is_recording
                 /\ pc[t] = "start_ret" /\ loc[t].success
                      => rec'.is_recording /\ app'.is_recording
                 /\ pc[t] = "start_ret" /\ ~loc[t].success
                      => env.faults > 0]_vars

\* ----------------------------------------------------------- the wake phrase
\* The listener's phrase check on every short text and every short phrase.
Phrases == TextsUpTo(MaxPhraseLen)
Texts == TextsUpTo(MaxTextLen)

InitPhrase == \E wake_word \in Phrases, heard \in Texts :
                  InitWith(wake_word, heard, default_behavior)

NextPhrase ==
    \/ HeySetup
    \/ HeyRead(voice_activation_threshold + 1)
    \/ HeyCheckHeard
    \/ HeyActivate

SpecPhrase == InitPhrase /\ [][NextPhrase]_vars

\* the words `run` are a contiguous run of the words `words`, in order
Occurs(run, words) ==
    \E i, j \in 0..Len(words) : i <= j /\ SubSeq(words, i + 1, j) = run

\* a phrase check returns: the worker leaves "hey_checking" without an error
CheckReturns ==
    /\ pc[HEY] = "hey_checking"
    /\ pc'[HEY] # "hey_checking"
    /\ hist'.loop_errors = hist.loop_errors

Detected == pc'[HEY] = "hey_pause"

\* C28: a phrase check on at least one second of audio reports a detection
\* exactly when the words of the configured phrase occur as a contiguous run,
\* in order, within the words of the recognized text (both in lower case); a
\* part of the phrase, its words in another order or with another word in
\* between are no detection.
C28_ContiguousRun ==
    [][CheckReturns /\ Len(hey.audio_buffer) >= sample_rate
         => (Detected <=> Occurs(Split(Lower(app.config.wake_word)),
                                  Split(Lower(env.heard))))]_vars

\* a phrase of two words was detected at the end of a longer text
C28_Witness ==
    /\ pc[HEY] = "hey_pause"
    /\ Len(Split(hey.wake_word)) = 2
    /\ Len(Split(env.heard)) = 3
    /\ SubSeq(Split(Lower(env.heard)), 1, 2) # Split(hey.wake_word)

\* C30: a phrase check does not stall the intake of frames: while a check or
\* the pause after a detection is in progress, the listener that is switched
\* on and has frames to read can read the next frame.
C30_IntakeNotStalled ==
    /\ pc[HEY] \in {"hey_checking", "hey_pause"}
    /\ hey.is_listening
    /\ hist.samples_read < MaxWakeFrames * listen_chunk
    => ENABLED HeyRead(voice_activation_threshold)

\* ------------------------------------------------------------ pasted texts
\* One session of one frame, started and stopped with the record button,
\* whose audio the speech model turns into any short text, under every
\* setting of the post-processing flags.
Behaviors ==
    [remove_filler_words : BOOLEAN, capitalize_sentences : BOOLEAN,
     auto_punctuation : BOOLEAN]

InitPaste ==
    \E heard \in TextsOver(SpokenChars, MaxSpokenLen), behavior \in Behaviors :
        InitWith(default_wake_word, heard, behavior)

FirstClick ==
    /\ hist.started_by = "none"
    /\ ~app.is_recording
    /\ GuiClick

NextPaste ==
    \/ FirstClick
    \/ StopClick
    \/ RaceFrame
    \/ CallbackBody
    \/ Procedure(GUI)
    \/ TranscribeAndPaste

SpecPaste == InitPaste /\ [][NextPaste]_vars

\* C29: paste_text is only ever called with a string that has a character
\* other than white space: never with None, with the empty string or with
\* blanks only, whatever the transcriber returned and whichever
\* post-processing flags are set.
C29_PasteNonEmpty ==
    hist.paste_text # NotCalled
        => /\ hist.paste_text.kind = "str"
           /\ \E i \in 1..Len(hist.paste_text.text) :
                 hist.paste_text.text[i] # " "

\* a text was pasted from which post-processing had removed a filler word
C29_Witness ==
    /\ hist.paste_text # NotCalled
    /\ Len(hist.paste_text.text) < Len(Strip(env.heard))

\* ------------------------------------------- the configuration being changed
\* The settings are changed while the listener checks what it hears and a
\* voice-assistant session watches for silence.
ConfigValues ==
    [voice_activation_threshold |->
         {voice_activation_threshold, voice_activation_threshold + 1},
     silence_timeout |-> {silence_timeout, silence_timeout + 2},
     wake_word |-> {default_wake_word, <<"b">>}]

InitConfig == \E heard \in ConfigValues.wake_word :
                  InitWith(default_wake_word, heard, default_behavior)

ConfigFrame ==
    /\ env.frames < MaxPttFrames
    /\ \E r \in {voice_activation_threshold - 1, voice_activation_threshold} :
          CallbackEnter(r)

NextConfig ==
    \/ \E key \in DOMAIN ConfigValues :
          \E value \in ConfigValues[key] : ConfigSet(key, value)
    \/ HeySetup
    \/ \E r \in {voice_activation_threshold + 1,
                  voice_activation_threshold + 2} : HeyRead(r)
    \/ HeyCheckHeard
    \/ HeyActivate
    \/ VaBegin
    \/ VaForceStop
    \/ ConfigFrame
    \/ CallbackBody
    \/ TimerFire
    \/ \E t \in {VA, TIMER} : RecorderCalls(t)
    \/ SessionTick

SpecConfig == InitConfig /\ [][NextConfig]_vars

\* the callback has handled a frame of a session with auto-stop
FrameHandled ==
    /\ pc[CB] = "cb_body"
    /\ pc'[CB] = "idle"
    /\ rec.auto_stop_enabled

\* C25: every evaluation uses the configuration as it is at that moment.  A
\* frame handled by the callback counts as silence exactly when it is below
\* the configured threshold, and the deferred stop is scheduled exactly when
\* the silence has lasted longer than the configured silence timeout; a
\* phrase check detects exactly the phrase that is configured.
C25_LatestConfiguration ==
    /\ [][FrameHandled =>
            LET silent == loc[CB].frame.rms <
                              app.config.voice_activation_threshold
            IN /\ rec'.silence_start = None <=> ~silent
               /\ (pc[TIMER] # "timer_wait" /\ pc'[TIMER] = "timer_wait")
                     <=> /\ silent
                         /\ rec.silence_start # None
                         /\ now - rec.silence_start >
                                app.config.silence_timeout]_vars
    /\ [][CheckReturns =>
            (Detected <=>
                /\ Len(hey.audio_buffer) >= sample_rate
                /\ Occurs(Split(Lower(app.config.wake_word)),
                          Split(Lower(env.heard))))]_vars

\* ------------------------------------------------- the two voice detectors
\* C31: the recorder's auto-stop logic and the listener's
\* _detect_voice_activity agree on every frame the recorder has been given,
\* under the same threshold: the one takes it for voice exactly when the
\* other does, also when its RMS level equals the threshold.
C31_DetectorsAgree ==
    \A i \in 1..Len(hist.delivered) :
        ~IsSilent(hist.delivered[i].rms)
            <=> DetectVoiceActivity(hist.delivered[i].rms)

\* ---------------------------------------------------------- the two flags
\* no thread is inside start_recording, stop_recording_and_transcribe or
\* toggle_recording
NoCallInProgress == \A t \in Workers : ~InCall(t)

\* C32: whenever no start or stop call is in progress the application's
\* is_recording is True exactly when the recorder's is_recording is True.
C32_FlagsAgree ==
    NoCallInProgress => (app.is_recording <=> rec.is_recording)

\* --------------------------------------------------------- back to Idle
\* The three triggers racing, with every thread that is inside a call
\* running on, and a user who keeps asking for the toggle with the record
\* button whenever the Tk thread is free.
SpecRaceFair ==
    /\ SpecRace
    /\ \A t \in {KB, GUI, VA} : WF_vars(Procedure(t))
    /\ WF_vars(KbToggle)
    /\ WF_vars(VaBegin)
    /\ WF_vars(VaForceStop)
    /\ WF_vars(GuiClick)

\* C33: from every state in which the recorder is Active, the toggle
\* requests and the session's own stop trigger eventually stop the recorder.
C33_BackToIdle == rec.is_recording ~> ~rec.is_recording

\* ------------------------------------------------------ the toggle-mode flag
\* C34: whenever no call is in progress, is_toggle_mode is True only if
\* is_recording is True, also after a toggle whose start failed.
C34_ToggleModeOnlyRecording ==
    NoCallInProgress => (app.is_toggle_mode => app.is_recording)

\* ------------------------------------------------- the session's forced stop
\* A voice-assistant session and the record button, with the clock moving by
\* the waits of the session thread.
NextForce ==
    \/ FirstWake
    \/ VaBegin
    \/ VaForceStop
    \/ GuiClick
    \/ SessionTick
    \/ \E t \in {GUI, VA} : Procedure(t)

SpecForce == Init /\ [][NextForce]_vars

\* C35: the forced stop of the session thread ends only the recording that
\* its own session started.
C35_ForcedStopOwnSession ==
    [][(/\ pc[VA] = "stop_set"
        /\ loc[VA].via = "va_force"
        /\ pc'[VA] # "stop_set")
       => hist.started_by = "va"]_vars

\* ------------------------------------------------- the deferred auto-stop
\* A voice-assistant session on silent frames and the record button, which
\* may end the session and start a recording of its own.
NextDeferred ==
    \/ FirstWake
    \/ VaBegin
    \/ VaForceStop
    \/ GuiClick
    \/ SilentFrame
    \/ CallbackBody
    \/ TimerFire
    \/ SessionTick
    \/ \E t \in {GUI, VA, TIMER} : Procedure(t)

SpecDeferred == Init /\ [][NextDeferred]_vars

\* C36: the deferred auto-stop ends only the session whose silence
\* scheduled it: when the timer thread stops the recorder, the live session
\* has scheduled an auto-stop.
C36_DeferredStopOwnSession ==
    [][(/\ pc[TIMER] = "stop_set"
        /\ pc'[TIMER] # "stop_set")
       => hist.scheduled > 0]_vars

\* ------------------------------------------------- restarting the listener
\* The threads running _listen_worker: the one whose position is pc[HEY] and
\* those started while it was still alive (hey.other_workers)
MaxOtherWorkers == 1

ListenWorkers == (IF pc[HEY] = "off" THEN 0 ELSE 1) + hey.other_workers

\* save_settings, settings_window.py 79-81: with the voice assistant enabled
\* the Tk thread calls stop_listening and then sleeps 0.1 s
SettingsSaveStop ==
    /\ pc[GUI] = "idle"
    /\ StopListening
    /\ Goto(GUI, "save_sleep")
    /\ UNCHANGED <<now, rec, record_lock, app, hk, loc, hist>>

\* save_settings, settings_window.py 82-83, and start_listening, hey_soffy.py
\* 36-49: after the sleep, unless is_listening is set, the flag is set and a
\* new thread is started on _listen_worker, whatever became of the old one
SettingsSaveStart ==
    /\ pc[GUI] = "save_sleep"
    /\ IF hey.is_listening
       THEN /\ Goto(GUI, "idle")
            /\ UNCHANGED hey
       ELSE /\ pc[HEY] = "off" \/ hey.other_workers < MaxOtherWorkers
            /\ hey' = [hey EXCEPT
                   !.is_listening = TRUE,
                   !.other_workers = IF pc[HEY] = "off" THEN @ ELSE @ + 1]
            /\ pc' = [pc EXCEPT
                   ![GUI] = "idle",
                   ![HEY] = IF pc[HEY] = "off" THEN "hey_setup" ELSE @]
    /\ UNCHANGED <<now, rec, record_lock, app, hk, loc, env, hist>>

\* lines 83 and 111-125: another worker finds is_listening False at the head
\* of its loop and runs _cleanup_audio on the handler's stream
OtherWorkerExit ==
    /\ hey.other_workers > 0
    /\ ~hey.is_listening
    /\ hey' = [hey EXCEPT !.other_workers = @ - 1, !.stream = "None"]
    /\ UNCHANGED <<now, rec, record_lock, app, hk, pc, loc, env, hist>>

\* The wake-word listener with its voice-assistant sessions, and the settings
\* window saved any number of times.
NextRestart ==
    \/ HeySetup
    \/ \E r \in {voice_activation_threshold, voice_activation_threshold + 1} :
          HeyRead(r)
    \/ \E match \in BOOLEAN : HeyCheck(match)
    \/ HeyActivate
    \/ VaBegin
    \/ VaForceStop
    \/ RecorderCalls(VA)
    \/ SessionTick
    \/ HeyWorkerExit
    \/ SettingsSaveStop
    \/ SettingsSaveStart
    \/ OtherWorkerExit

SpecRestart == Init /\ [][NextRestart]_vars

\* C37: at most one thread runs _listen_worker at any time.
C37_OneListenWorker == ListenWorkers <= 1

\* ------------------------------------------- activation during a recording
\* C38: a wake-word activation that arrives while the recorder is Active
\* has no effect: it starts no session thread and changes nothing of the
\* recorder or the application.
C38_ActivationIgnored ==
    [][(rec.is_recording /\ WakeWordCallback) => UNCHANGED vars]_vars

\* ------------------------------------------------------- the stream of Idle
\* C39: whenever the recorder is Idle and no call is in progress,
\* AudioRecorder.stream is None.
C39_IdleHoldsNoStream ==
    (NoCallInProgress /\ ~rec.is_recording) => rec.stream = "None"

====
